---- MODULE Spec2Model ----
(***************************************************************************)
(* A model of package poly: Poly.Handler / newHandler (the one-time        *)
(* signature analysis producing the binding plan) and handler.ServeHTTP    *)
(* (per-request binding, invocation and response encoding).                *)
(*                                                                         *)
(* Byte strings are sequences of one-character strings.  The wrapped       *)
(* function is opaque user code: its return values are drawn from small    *)
(* sets when it is called, and what it may itself write through a          *)
(* pass-through http.ResponseWriter is not part of the adapter's response. *)
(***************************************************************************)
EXTENDS Integers, Sequences, FiniteSets, TLC

\* ------------------------------------------------------------------ bounds
\* Longest parameter list of a wrapped function.
MaxArgs == 2
\* Longest string carried by a payload value.
MaxLen == 1
\* How many bytes a short-writing response writer takes per Write call.
MaxWrite == 1
\* Longest request path given to KeyValueParams.
MaxPath == 7
\* How many PathParam calls the handler behind the middleware makes.
MaxLookups == 1

\* --------------------------------------------------------------- constants
StatusOK == 200
StatusBadRequest == 400
StatusInternalServerError == 500

NIL == "nil"

\* ------------------------------------------------------------------- types
\* Parameter types of wrapped functions:
\*   Request         *http.Request           (argTypeRequest)
\*   ResponseWriter  http.ResponseWriter     (argTypeResponseWriter)
\*   T               struct{Name string; Age int} tagged form/path/query/json
\*   PtrT            *T
\*   QT              struct{Name string; Age int} tagged query only
\*   Int             int
\*   Iface           an interface type other than http.ResponseWriter
ParamTypes == {"Request", "ResponseWriter", "T", "PtrT", "QT", "Int", "Iface"}

argTypeRequest == "Request"
argTypeResponseWriter == "ResponseWriter"

\* Return types of wrapped functions, one per reflect.Kind besides the named
\* ones: MyString is `type MyString string`, struct is struct{Name string},
\* ptr a pointer to it, error and interface{} are interfaces.
NumericTypes == {"int", "int8", "int16", "int32", "int64",
                 "uint", "uint8", "uint16", "uint32", "uint64",
                 "float32", "float64"}

OutTypes ==
  {"bool", "string", "MyString", "ptr", "array", "slice", "map", "struct",
   "uintptr", "complex64", "complex128", "chan", "func", "interface{}",
   "unsafe.Pointer", "error"} \cup NumericTypes

\* reflect.Type.Kind()
Kind(T) ==
  CASE T = "Request" -> "Ptr"
    [] T = "ResponseWriter" -> "Interface"
    [] T = "T" -> "Struct"
    [] T = "PtrT" -> "Ptr"
    [] T = "QT" -> "Struct"
    [] T = "Int" -> "Int"
    [] T = "Iface" -> "Interface"
    [] T = "bool" -> "Bool"
    [] T = "int" -> "Int"
    [] T = "int8" -> "Int8"
    [] T = "int16" -> "Int16"
    [] T = "int32" -> "Int32"
    [] T = "int64" -> "Int64"
    [] T = "uint" -> "Uint"
    [] T = "uint8" -> "Uint8"
    [] T = "uint16" -> "Uint16"
    [] T = "uint32" -> "Uint32"
    [] T = "uint64" -> "Uint64"
    [] T = "float32" -> "Float32"
    [] T = "float64" -> "Float64"
    [] T = "string" -> "String"
    [] T = "MyString" -> "String"
    [] T = "ptr" -> "Ptr"
    [] T = "array" -> "Array"
    [] T = "slice" -> "Slice"
    [] T = "map" -> "Map"
    [] T = "struct" -> "Struct"
    [] T = "uintptr" -> "Uintptr"
    [] T = "complex64" -> "Complex64"
    [] T = "complex128" -> "Complex128"
    [] T = "chan" -> "Chan"
    [] T = "func" -> "Func"
    [] T = "interface{}" -> "Interface"
    [] T = "unsafe.Pointer" -> "UnsafePointer"
    [] T = "error" -> "Interface"

\* reflect.Type.Elem().Kind() of a pointer type; http.Request is a struct.
ElemKind(T) ==
  CASE T = "Request" -> "Struct"
    [] T = "PtrT" -> "Struct"
    [] OTHER -> "Invalid"

\* The struct tags a (dereferenced) type carries on its fields.
Tags(T) ==
  CASE T = "T" -> {"form", "path", "query", "json"}
    [] T = "PtrT" -> {"form", "path", "query", "json"}
    [] T = "QT" -> {"query"}
    [] OTHER -> {}

\* The fields of T.
Fields == <<"name", "age">>

\* set.Mapper.Map(T).Keys for a mapper with TaggedFieldsOnly reading one tag
\* (DefaultFormMapper, DefaultPathMapper, DefaultQueryMapper), and for a
\* mapper without TaggedFieldsOnly ("untagged"), which reports the fields of
\* every struct, tagged or not, and of every pointer to one.
MapKeys(mapper, T) ==
  IF mapper = NIL THEN <<>>
  ELSE IF mapper = "untagged"
  THEN (IF Kind(T) = "Struct" \/ ElemKind(T) = "Struct" THEN Fields ELSE <<>>)
  ELSE IF mapper \in Tags(T) THEN Fields ELSE <<>>

\* Return type lists of wrapped functions: none, every single type, and
\* payload/error combinations.
OutSigs ==
  { <<>> } \cup { <<t>> : t \in OutTypes }
  \cup { <<"string", "error">>, <<"struct", "error">>, <<"chan", "string">>,
         <<"error", "error">>, <<"bool", "error", "error">> }

\* All sequences over S of length at most n.
RECURSIVE SeqsUpTo(_, _)
SeqsUpTo(S, n) ==
  IF n = 0 THEN { <<>> }
  ELSE LET shorter == SeqsUpTo(S, n - 1)
       IN  shorter \cup { Append(s, x) : s \in { t \in shorter : Len(t) = n - 1 }, x \in S }

InSigs == SeqsUpTo(ParamTypes, MaxArgs)

\* What can be passed to Poly.Handler: an http.Handler value, an
\* http.HandlerFunc value, a plain function, or a value that is no function.
FnValues ==
  { [kind |-> "http.Handler", in |-> <<>>, out |-> <<>>],
    [kind |-> "http.HandlerFunc", in |-> <<"ResponseWriter", "Request">>, out |-> <<>>],
    [kind |-> "value", in |-> <<>>, out |-> <<>>] }
  \cup { [kind |-> "func", in |-> i, out |-> o] : i \in InSigs, o \in OutSigs }

\* Poly{FormMapper, PathMapper, QueryMapper, PathParamer}: each mapper nil or
\* the package default, the provider nil or set.
Polys ==
  [ FormMapper : {NIL, "form"}, PathMapper : {NIL, "path"},
    QueryMapper : {NIL, "query"}, PathParamer : {NIL, "paramer"} ]

\* As Polys, and each mapper may also be one configured without
\* TaggedFieldsOnly.
AllPolys ==
  [ FormMapper : {NIL, "form", "untagged"}, PathMapper : {NIL, "path", "untagged"},
    QueryMapper : {NIL, "query", "untagged"}, PathParamer : {NIL, "paramer"} ]

\* ------------------------------------------------------- signature analysis
\* call.Func.PruneIn(argTypeRequest, argTypeResponseWriter): the arguments of
\* those types, as (N, T) pairs in declared order; N is 0-based.
\* Faulty variant: the positions are counted from one.
RECURSIVE PruneInFromOneBased(_, _)
PruneInFromOneBased(in, k) ==
  IF k > Len(in) THEN <<>>
  ELSE (IF in[k] \in {argTypeRequest, argTypeResponseWriter}
        THEN << [N |-> k, T |-> in[k]] >> ELSE <<>>) \o PruneInFromOneBased(in, k + 1)

RECURSIVE PruneInFrom(_, _)
PruneInFrom(in, k) ==
  IF k > Len(in) THEN <<>>
  ELSE (IF in[k] \in {argTypeRequest, argTypeResponseWriter}
        THEN << [N |-> k - 1, T |-> in[k]] >> ELSE <<>>) \o PruneInFrom(in, k + 1)

PruneIn(in) == PruneInFrom(in, 1)

\* Faulty variant: the request type is not skipped.
SkippedOnlyInterface(T) == Kind(T) = "Interface"

\* The `switch true` at the top of newHandler's loop: the parameter is skipped.
Skipped(T) == T = argTypeRequest \/ Kind(T) = "Interface"

\* Faulty variant: the pointer-to-struct case is forgotten.
IsJSONTargetNoElem(T) == Kind(T) = "Struct"

\* The JSON eligibility test at the end of newHandler's loop.
IsJSONTarget(T) ==
  Kind(T) = "Struct" \/ (Kind(T) = "Ptr" /\ ElemKind(T) = "Struct")

\* The whitelist of kinds of the first return value.
WhitelistKinds == {"Bool", "Float32", "Float64",
                   "Int", "Int8", "Int16", "Int32", "Int64",
                   "Uint", "Uint8", "Uint16", "Uint32", "Uint64",
                   "String", "Ptr", "Array", "Slice", "Map", "Struct"}

\* Faulty variant: any return value of a whitelisted kind counts.
HasReturnAny(out) == \E k \in 1..Len(out) : Kind(out[k]) \in WhitelistKinds

\* The `if fn.NumOut >= 1 { switch fn.OutTypes[0].Kind() ...` of newHandler.
HasReturn(out) == Len(out) >= 1 /\ Kind(out[1]) \in WhitelistKinds

\* Faulty variant: a nil mapper is not tested for, and taken for the default.
RECURSIVE newHandlerLoopUnguarded(_, _, _, _)
newHandlerLoopUnguarded(p, in, k, rv) ==
  IF k > Len(in) THEN rv
  ELSE
    LET T == in[k]
        form == IF Len(MapKeys(IF p.FormMapper = NIL THEN "form" ELSE p.FormMapper, T)) > 0
                THEN Append(rv.Form, k - 1) ELSE rv.Form
        path == IF Len(MapKeys(IF p.PathMapper = NIL THEN "path" ELSE p.PathMapper, T)) > 0
                THEN Append(rv.Path, [N |-> k - 1, Keys |-> Fields])
                ELSE rv.Path
        query == IF Len(MapKeys(IF p.QueryMapper = NIL THEN "query" ELSE p.QueryMapper, T)) > 0
                 THEN Append(rv.Query, k - 1) ELSE rv.Query
        json == IF IsJSONTarget(T) THEN Append(rv.JSON, k - 1) ELSE rv.JSON
    IN  IF Skipped(T) THEN newHandlerLoopUnguarded(p, in, k + 1, rv)
        ELSE newHandlerLoopUnguarded(p, in, k + 1,
               [rv EXCEPT !.Form = form, !.Path = path, !.Query = query, !.JSON = json])

\* One iteration of `for k, T := range fn.InTypes` (k is 1-based here, the
\* recorded index k - 1 is the 0-based Go index), then the rest of the loop.
RECURSIVE newHandlerLoop(_, _, _, _)
newHandlerLoop(p, in, k, rv) ==
  IF k > Len(in) THEN rv
  ELSE
    LET T == in[k]
        form == IF p.FormMapper # NIL /\ Len(MapKeys(p.FormMapper, T)) > 0
                THEN Append(rv.Form, k - 1) ELSE rv.Form
        path == IF p.PathMapper # NIL /\ Len(MapKeys(p.PathMapper, T)) > 0
                THEN Append(rv.Path, [N |-> k - 1, Keys |-> MapKeys(p.PathMapper, T)])
                ELSE rv.Path
        query == IF p.QueryMapper # NIL /\ Len(MapKeys(p.QueryMapper, T)) > 0
                 THEN Append(rv.Query, k - 1) ELSE rv.Query
        json == IF IsJSONTarget(T) THEN Append(rv.JSON, k - 1) ELSE rv.JSON
    IN  IF Skipped(T) THEN newHandlerLoop(p, in, k + 1, rv)
        ELSE newHandlerLoop(p, in, k + 1,
               [rv EXCEPT !.Form = form, !.Path = path, !.Query = query, !.JSON = json])

newHandler(p, f) ==
  newHandlerLoop(p, f.in, 1,
    [ kind |-> "handler",
      Poly |-> p,
      Fn |-> f,
      FnHasReturn |-> HasReturn(f.out),
      PassThru |-> PruneIn(f.in),
      Form |-> <<>>,
      JSON |-> <<>>,
      Path |-> <<>>,
      Query |-> <<>> ])

\* Faulty variant: func(http.ResponseWriter, *http.Request) is adapted like
\* any other function.
HandlerWithoutBypass(p, f) ==
  IF f.kind \in {"http.Handler", "http.HandlerFunc"} THEN [kind |-> "same", Fn |-> f]
  ELSE IF f.kind # "func" THEN [kind |-> "panic", Fn |-> f]
  ELSE newHandler(p, f)

\* Faulty variant: a value that is no function is adapted like a function
\* without parameters or return values.
HandlerOfAnything(p, f) ==
  IF f.kind \in {"http.Handler", "http.HandlerFunc"} THEN [kind |-> "same", Fn |-> f]
  ELSE IF Len(f.in) = 2 /\ f.in[1] = argTypeResponseWriter /\ f.in[2] = argTypeRequest
       THEN IF f.out = <<>> THEN [kind |-> "HandlerFunc", Fn |-> f]
            ELSE [kind |-> "panic", Fn |-> f]
  ELSE newHandler(p, f)

\* Poly.Handler: what it returns.
\*   "same"         the argument itself (it is an http.Handler / http.HandlerFunc)
\*   "HandlerFunc"  http.HandlerFunc(fn) for fn of type func(ResponseWriter, *Request)
\*   "handler"      the plan-carrying adapter built by newHandler
\*   "panic"        call.StatFunc panicked (the argument is no function), or
\*                  the assertion fn.(func(http.ResponseWriter, *http.Request))
\*                  did: the parameters are (writer, request) but fn also
\*                  returns values, so its type is not that function type
Handler(p, f) ==
  IF f.kind \in {"http.Handler", "http.HandlerFunc"} THEN [kind |-> "same", Fn |-> f]
  ELSE IF f.kind # "func" THEN [kind |-> "panic", Fn |-> f]
  ELSE IF Len(f.in) = 2 /\ f.in[1] = argTypeResponseWriter /\ f.in[2] = argTypeRequest
       THEN IF f.out = <<>> THEN [kind |-> "HandlerFunc", Fn |-> f]
            ELSE [kind |-> "panic", Fn |-> f]
  ELSE newHandler(p, f)

\* ------------------------------------------------------------------ values
\* Argument values.  W and Req are the writer and the request the host passes
\* to ServeHTTP; a struct (or the struct a pointer refers to) carries, per
\* field, "" (zero) or the mark of the source that wrote it last:
\* "P" path, "Q" query, "F" form, "J" JSON.
W == [kind |-> "writer", name |-> "", age |-> ""]
Req == [kind |-> "request", name |-> "", age |-> ""]

\* Faulty variant: a struct comes with a value left in its first field.
ZeroValueStale(T) ==
  CASE T \in {argTypeRequest, argTypeResponseWriter} -> [kind |-> "unset", name |-> "", age |-> ""]
    [] T \in {"T", "QT"} -> [kind |-> "struct", name |-> "Q", age |-> ""]
    [] T = "PtrT" -> [kind |-> "ptr", name |-> "Q", age |-> ""]
    [] T = "Iface" -> [kind |-> "iface", name |-> "", age |-> ""]
    [] OTHER -> [kind |-> "int", name |-> "", age |-> ""]

\* The value call.Func.Args() allocates for a parameter of type T: pruned
\* parameters are left unset, the others hold their zero value.
ZeroValue(T) ==
  CASE T \in {argTypeRequest, argTypeResponseWriter} -> [kind |-> "unset", name |-> "", age |-> ""]
    [] T \in {"T", "QT"} -> [kind |-> "struct", name |-> "", age |-> ""]
    [] T = "PtrT" -> [kind |-> "ptr", name |-> "", age |-> ""]
    [] T = "Iface" -> [kind |-> "iface", name |-> "", age |-> ""]
    [] OTHER -> [kind |-> "int", name |-> "", age |-> ""]

\* call.Func.Args()
Args(f) == [k \in 1..Len(f.in) |-> ZeroValue(f.in[k])]

\* Which fields a request source carries a value for.
Supplies == { {}, {"name"}, {"name", "age"} }

\* What a source may carry that Set cannot write: a value for age that does
\* not convert to the field's type, and a key that names no field.
Unwritable == {"age!", "other"}

\* Which values a path provider, a query string or a form carries.
FieldSupplies == Supplies \cup { {"name"} \cup Unwritable }

\* `b.Set(key, value)` with the returned error dropped: the steps so far in
\* which some Set call failed.
SetErrors(done, step, sup) ==
  IF sup \cap Unwritable # {} THEN done \cup {step} ELSE done

\* Faulty variant: a field that already holds a value is not written.
BindSetIfZero(v, sup, mark) ==
  [v EXCEPT !.name = IF "name" \in sup /\ @ = "" THEN mark ELSE @,
            !.age = IF "age" \in sup /\ @ = "" THEN mark ELSE @]

\* set.Mapper.Bind(ptr) followed by Set(key, value) for every key the source
\* carries: fields of the bound struct named by a carried key take the mark.
BindSet(v, sup, mark) ==
  [v EXCEPT !.name = IF "name" \in sup THEN mark ELSE @,
            !.age = IF "age" \in sup THEN mark ELSE @]

\* Path binding of one argument: Set(key, PathParam(req, key)) for every key of
\* param.Keys; a key the provider has no value for is set from "".
BindPath(v, keys, sup) ==
  [v EXCEPT !.name = IF \E j \in 1..Len(keys) : keys[j] = "name"
                     THEN (IF "name" \in sup THEN "P" ELSE "") ELSE @,
            !.age = IF \E j \in 1..Len(keys) : keys[j] = "age"
                    THEN (IF "age" \in sup THEN "P" ELSE "") ELSE @]

\* Is n (0-based) one of the indices in the list idx?
InList(idx, n) == \E j \in 1..Len(idx) : idx[j] = n

\* --------------------------------------------------------------- responses
Chars == {"a", "%"}
Str == SeqsUpTo(Chars, MaxLen)

ContentTypeJSON == "application/json"
ContentTypeFormEncoded == "application/x-www-form-urlencoded"
ContentTypeText == "text/plain; charset=utf-8"

\* Values of the Content-Type request header: absent, the two media types,
\* and the JSON media type with a charset parameter.
ContentTypes == {"", ContentTypeJSON, ContentTypeFormEncoded,
                 "application/json; charset=utf-8"}

\* The response as the adapter has written it: status 0 is "nothing written".
NoResponse == [status |-> 0, ctype |-> "", body |-> <<>>]

\* http.Error(w, msg, code): plain-text content type, the status, and the
\* message followed by a newline (fmt.Fprintln).
HttpError(msg, code) ==
  [status |-> code, ctype |-> ContentTypeText, body |-> msg \o <<"\n">>]

\* w.Write(b) on a response: the first write commits status 200.
Write(r, b) ==
  [r EXCEPT !.status = IF @ = 0 THEN StatusOK ELSE @, !.body = @ \o b]

\* w.Header().Set("Content-Type", v)
SetContentType(r, v) == [r EXCEPT !.ctype = v]

\* How the host's http.ResponseWriter answers a Write call: it takes all the
\* bytes, takes only the first MaxWrite of them, or fails taking none.
Writers == {"all", "short", "error"}

\* Nothing has been offered to the writer.
NoWire == [got |-> <<>>, err |-> FALSE]

\* The one Write call that fmt.Fprint, fmt.Fprintf and fmt.Fprintln make with
\* the whole text b: what the writer took of it.  The (n, err) it returns is
\* not looked at and no second call follows.
WriteCall(wr, b) ==
  [ got |-> CASE wr = "all" -> b
              [] wr = "short" -> SubSeq(b, 1, IF Len(b) < MaxWrite THEN Len(b) ELSE MaxWrite)
              [] wr = "error" -> <<>>,
    err |-> wr = "error" ]

\* json.Marshal of a payload v, whose v.s is: the Name of a struct{Name string}
\* (or of the struct a pointer refers to), the text of a string, the digits of
\* a number, <<"1">> or <<>> for the bool true or false; arrays, slices and
\* maps are empty.  (The characters of Chars need no escaping.)
Quote(s) == <<"\"">> \o s \o <<"\"">>

JSONMarshal(v) ==
  CASE v.type \in {"struct", "ptr"} ->
         <<"{">> \o Quote(<<"N", "a", "m", "e">>) \o <<":">> \o Quote(v.s) \o <<"}">>
    [] v.type \in {"string", "MyString"} -> Quote(v.s)
    [] v.type = "bool" ->
         IF v.s = <<"1">> THEN <<"t", "r", "u", "e">> ELSE <<"f", "a", "l", "s", "e">>
    [] v.type \in {"array", "slice"} -> <<"[", "]">>
    [] v.type = "map" -> <<"{", "}">>
    [] OTHER -> v.s

\* json.Unmarshal of a JSON text into a value of type t: the v.s it yields.
JSONUnmarshal(b, t) ==
  CASE t \in {"struct", "ptr"} -> SubSeq(b, 10, Len(b) - 2)
    [] t \in {"string", "MyString"} -> SubSeq(b, 2, Len(b) - 1)
    [] t = "bool" -> IF b = <<"t", "r", "u", "e">> THEN <<"1">> ELSE <<>>
    [] t \in {"array", "slice", "map"} -> <<>>
    [] OTHER -> b

\* json.Marshal fails on a value it does not support.
MarshalFails(v) == v.bad
MarshalErrMsg == <<"json: unsupported value">>

\* fmt.Sprint(s): the text itself.
Sprint(s) == s

\* fmt.Sprintf(format) with no operands: "%%" gives "%", "%" followed by a
\* verb character c gives "%!c(MISSING)", a trailing "%" gives "%!(NOVERB)".
RECURSIVE Sprintf(_)
Sprintf(f) ==
  IF f = <<>> THEN <<>>
  ELSE IF Head(f) # "%" THEN <<Head(f)>> \o Sprintf(Tail(f))
  ELSE IF Len(f) = 1 THEN <<"%", "!", "(", "N", "O", "V", "E", "R", "B", ")">>
  ELSE IF f[2] = "%" THEN <<"%">> \o Sprintf(SubSeq(f, 3, Len(f)))
  ELSE <<"%", "!", f[2], "(", "M", "I", "S", "S", "I", "N", "G", ")">>
       \o Sprintf(SubSeq(f, 3, Len(f)))

\* ----------------------------------------------------------- return values
NoError == [type |-> "error", s |-> <<>>, bad |-> FALSE, isnil |-> TRUE]

\* The values a function may return at a position of the given type.
ValuesOf(t) ==
  CASE t \in {"string", "MyString"} ->
         { [type |-> t, s |-> x, bad |-> FALSE, isnil |-> FALSE] : x \in Str }
    [] t = "struct" ->
         { [type |-> t, s |-> x, bad |-> FALSE, isnil |-> FALSE] : x \in Str }
         \cup { [type |-> t, s |-> <<>>, bad |-> TRUE, isnil |-> FALSE] }
    [] t \in NumericTypes \cup {"bool", "uintptr"} ->
         { [type |-> t, s |-> <<"1">>, bad |-> FALSE, isnil |-> FALSE] }
    [] t = "ptr" -> { [type |-> t, s |-> <<"a">>, bad |-> FALSE, isnil |-> FALSE] }
    [] t \in {"array", "slice", "map"} ->
         { [type |-> t, s |-> <<>>, bad |-> FALSE, isnil |-> FALSE] }
    [] t \in {"complex64", "complex128", "chan", "func", "interface{}", "unsafe.Pointer"} ->
         { [type |-> t, s |-> <<>>, bad |-> TRUE, isnil |-> FALSE] }
    [] t = "error" ->
         { NoError, [type |-> t, s |-> <<"e">>, bad |-> FALSE, isnil |-> FALSE],
           [type |-> t, s |-> <<"f">>, bad |-> FALSE, isnil |-> FALSE] }

\* All value lists a function with return types out may return.
RECURSIVE Returns(_)
Returns(out) ==
  IF out = <<>> THEN { <<>> }
  ELSE { <<v>> \o rest : v \in ValuesOf(Head(out)), rest \in Returns(Tail(out)) }

\* Faulty variant: the first returned value of type error is taken.
FirstError(vals, k) ==
  IF \E j \in 1..k : vals[j].type = "error"
  THEN vals[CHOOSE j \in 1..k :
              vals[j].type = "error" /\ \A i \in 1..(j - 1) : vals[i].type # "error"]
  ELSE NoError

\* call.Func.Call: Result.Error is the last returned value of type error.
RECURSIVE LastError(_, _)
LastError(vals, k) ==
  IF k = 0 THEN NoError
  ELSE IF vals[k].type = "error" THEN vals[k]
  ELSE LastError(vals, k - 1)

Call(vals) == [Values |-> vals, Error |-> LastError(vals, Len(vals))]

NoResult == [Values |-> <<>>, Error |-> NoError]

\* ------------------------------------------------------------------- state
VARIABLES
  fn,           \* the value passed to Poly.Handler
  poly,         \* the Poly it is called on
  h,            \* what Poly.Handler returned
  pc,           \* where the registration / the request in flight stands
  args,         \* ServeHTTP's args: the call argument set of this request
  contentType,  \* ServeHTTP's contentType, once the header has been read
  body,         \* what req.Body turned out to hold, once read or parsed
  invoked,      \* how many times this request has called the wrapped function
  result,       \* ServeHTTP's result, once the function has returned
  resp,         \* what the adapter has written to w in this request
  trace,        \* the steps of ServeHTTP this request has gone through
  lookups,      \* how many times this request has called h.Poly.PathParam
  setErrors,    \* the binder steps in which a Set call returned an error so far
  writer,       \* how the host's http.ResponseWriter answers Write calls
  wire          \* what w's Write calls took of it, and whether one failed

\* KeyValueParams: one request through (or around) the middleware.
VARIABLES
  urlPath,      \* req.URL.Path
  kvpc,         \* where that request stands
  ctx,          \* the request context's value under kvpParams, as next sees it
  nextCalls,    \* how many times next.ServeHTTP has been called
  found         \* the PathParam calls next has made: key and returned value

\* Several ServeHTTP calls of one handler at once, one per goroutine.
VARIABLES
  rpc,          \* per call: where it stands
  rargs,        \* per allocation: the argument set h.Fn.Args() returned
  rin           \* per call: what its request carries for each binder step

\* Poly.Handler called a second time with the same function.
VARIABLES
  h2,           \* what the other Poly.Handler call returned
  serving       \* which of the two registrations h is: the first or the second

handlerVars ==
  <<fn, poly, h, pc, args, contentType, body, invoked, result, resp, trace,
    lookups, setErrors, writer, wire>>
kvVars == <<urlPath, kvpc, ctx, nextCalls, found>>
goVars == <<rpc, rargs, rin>>
regVars == <<h2, serving>>

vars == <<handlerVars, kvVars, goVars, regVars>>

NoHandler == [kind |-> "none"]

\* The parts of the state that belong to KeyValueParams and to concurrent
\* calls, at rest.
NoKeyValueParams ==
  /\ urlPath = <<>>
  /\ kvpc = "off"
  /\ ctx = [set |-> FALSE, values |-> <<>>]
  /\ nextCalls = 0
  /\ found = <<>>

NoGoroutines ==
  /\ rpc = <<>>
  /\ rargs = <<>>
  /\ rin = <<>>

NoSecondHandler ==
  /\ h2 = NoHandler
  /\ serving = 1

\* req.Body has not been touched.
NoBody == [io |-> "unread", syntax |-> "ok", sup |-> {}]

\* The state after construction: a value of fns is about to be passed to
\* Poly.Handler, and the host's response writers behave as one of ws.
SetupWith(fns, ws, ps) ==
  /\ fn \in fns
  /\ writer \in ws
  /\ poly \in ps
  /\ h = NoHandler
  /\ pc = "register"
  /\ args = <<>>
  /\ contentType = ""
  /\ body = NoBody
  /\ invoked = 0
  /\ result = NoResult
  /\ resp = NoResponse
  /\ trace = <<>>
  /\ lookups = 0
  /\ setErrors = {}
  /\ wire = NoWire
  /\ NoKeyValueParams
  /\ NoGoroutines
  /\ NoSecondHandler

Setup(fns, ws) == SetupWith(fns, ws, Polys)

\* Any value is registered; response writers take every byte they are given.
Init == Setup(FnValues, {"all"})

\* Functions without parameters (and the values that are no functions) are
\* registered; response writers may take part of a Write or fail it.
InitWriters == Setup({f \in FnValues : f.in = <<>> \/ f.kind # "func"}, Writers)

\* mux.Handle(..., p.Handler(fn)): registration, once, before any request.
Register ==
  /\ pc = "register"
  /\ h' = Handler(poly, fn)
  /\ pc' = IF h'.kind = "panic" THEN "panicked" ELSE "idle"
  /\ UNCHANGED <<fn, poly, args, contentType, body, invoked, result, resp, trace,
               lookups, setErrors, writer, wire, kvVars, goVars, regVars>>

\* A request arrives at a handler Poly.Handler returned unchanged or as
\* http.HandlerFunc(fn): the host calls fn(w, req).
ServeDirect ==
  /\ pc \in {"idle", "done"}
  /\ h.kind \in {"same", "HandlerFunc"}
  /\ args' = <<W, Req>>
  /\ pc' = "call"
  /\ contentType' = ""
  /\ body' = NoBody
  /\ invoked' = 0
  /\ result' = NoResult
  /\ resp' = NoResponse
  /\ trace' = <<>>
  /\ lookups' = 0
  /\ setErrors' = {}
  /\ wire' = NoWire
  /\ UNCHANGED <<fn, poly, h, writer, kvVars, goVars, regVars>>

\* The function of such a handler runs and returns.
InvokeDirect ==
  /\ pc = "call"
  /\ h.kind \in {"same", "HandlerFunc"}
  /\ invoked' = invoked + 1
  /\ args' = <<>>
  /\ pc' = "done"
  /\ UNCHANGED <<fn, poly, h, contentType, body, result, resp, trace,
               lookups, setErrors, writer, wire, kvVars, goVars, regVars>>

\* handler.ServeHTTP is entered: args := h.Fn.Args().
ServeHTTP ==
  /\ pc \in {"idle", "done"}
  /\ h.kind = "handler"
  /\ args' = Args(h.Fn)
  /\ pc' = "passthru"
  /\ contentType' = ""
  /\ body' = NoBody
  /\ invoked' = 0
  /\ result' = NoResult
  /\ resp' = NoResponse
  /\ trace' = <<>>
  /\ lookups' = 0
  /\ setErrors' = {}
  /\ wire' = NoWire
  /\ UNCHANGED <<fn, poly, h, writer, kvVars, goVars, regVars>>

\* Faulty variant: the two cases of the switch are exchanged.
PassThruValueSwapped(T) == IF T = argTypeRequest THEN W ELSE Req

\* `switch passThru.T`: the value a pass-through slot of type T is set to.
PassThruValue(T) == IF T = argTypeRequest THEN Req ELSE W

\* `for _, passThru := range h.PassThru`: the slots are set from req and w.
RECURSIVE SetPassThru(_, _, _)
SetPassThru(a, pt, j) ==
  IF j > Len(pt) THEN a
  ELSE SetPassThru([a EXCEPT ![pt[j].N + 1] = PassThruValue(pt[j].T)], pt, j + 1)

PassThrough ==
  /\ pc = "passthru"
  /\ args' = SetPassThru(args, h.PassThru, 1)
  /\ pc' = "path"
  /\ trace' = Append(trace, "passthru")
  /\ UNCHANGED <<fn, poly, h, contentType, body, invoked, result, resp,
               lookups, setErrors, writer, wire, kvVars, goVars, regVars>>

\* `for _, param := range h.Path`: bind every path target.
RECURSIVE BindPathAll(_, _, _, _)
BindPathAll(a, path, j, sup) ==
  IF j > Len(path) THEN a
  ELSE BindPathAll([a EXCEPT ![path[j].N + 1] = BindPath(@, path[j].Keys, sup)],
                   path, j + 1, sup)

\* Faulty variant: the source is used up by the first listed argument.
BindAllConsuming(a, idx, j, sup, mark) ==
  IF j > Len(idx) THEN a
  ELSE [a EXCEPT ![idx[1] + 1] = BindSet(@, sup, mark)]

\* `for _, n := range idx`: bind every listed argument from one source.
RECURSIVE BindAll(_, _, _, _, _)
BindAll(a, idx, j, sup, mark) ==
  IF j > Len(idx) THEN a
  ELSE BindAll([a EXCEPT ![idx[j] + 1] = BindSet(@, sup, mark)], idx, j + 1, sup, mark)

\* How many h.Poly.PathParam(req, param) calls the loops over h.Path make.
RECURSIVE CountKeys(_, _)
CountKeys(pathTargets, j) ==
  IF j > Len(pathTargets) THEN 0
  ELSE Len(pathTargets[j].Keys) + CountKeys(pathTargets, j + 1)

\* Faulty variant: the provider is not tested for nil.
HasPathParamerAlways(p) == TRUE

\* `if h.Poly.PathParamer != nil`
HasPathParamer(p) == p.PathParamer # NIL

\* Unmarshal path parameters; sup is what the provider has values for.
PathBindFrom(sources) ==
  /\ pc = "path"
  /\ IF HasPathParamer(h.Poly) /\ Len(h.Path) > 0
     THEN /\ \E sup \in sources :
               /\ args' = BindPathAll(args, h.Path, 1, sup)
               /\ setErrors' = SetErrors(setErrors, "path", sup)
          /\ lookups' = CountKeys(h.Path, 1)
     ELSE /\ args' = args
          /\ lookups' = lookups
          /\ setErrors' = setErrors
  /\ pc' = "query"
  /\ trace' = Append(trace, "path")
  /\ UNCHANGED <<fn, poly, h, contentType, body, invoked, result, resp,
               writer, wire, kvVars, goVars, regVars>>

\* Path parameters every one of which Set can write.
PathBind == PathBindFrom(Supplies)

\* Unmarshal query parameters; sup is what req.URL.Query() carries.
QueryBindFrom(sources) ==
  /\ pc = "query"
  /\ IF Len(h.Query) > 0
     THEN \E sup \in sources :
            /\ args' = BindAll(args, h.Query, 1, sup, "Q")
            /\ setErrors' = SetErrors(setErrors, "query", sup)
     ELSE /\ args' = args
          /\ setErrors' = setErrors
  /\ pc' = "body"
  /\ trace' = Append(trace, "query")
  /\ UNCHANGED <<fn, poly, h, contentType, body, invoked, result, resp,
               lookups, writer, wire, kvVars, goVars, regVars>>

\* A query string every value of which Set can write.
QueryBind == QueryBindFrom(Supplies)

\* Faulty variant: the form target list is not looked at.
TryFormAnyTarget(hd, ct) == ct = ContentTypeFormEncoded

\* The gates of body binding: a non-nil target list and the exact header.
TryForm(hd, ct) == Len(hd.Form) > 0 /\ ct = ContentTypeFormEncoded

\* Faulty variant: the media type is matched, parameters ignored.
TryJSONPrefix(hd, ct) ==
  Len(hd.JSON) > 0 /\ ct \in {ContentTypeJSON, "application/json; charset=utf-8"}

TryJSON(hd, ct) == Len(hd.JSON) > 0 /\ ct = ContentTypeJSON

\* What a body turns out to be when it is read as JSON or parsed as a form:
\* unreadable, malformed, or well-formed and carrying some fields.
Bodies ==
  { [io |-> "error", syntax |-> "ok", sup |-> {}],
    [io |-> "ok", syntax |-> "bad", sup |-> {}] }
  \cup { [io |-> "ok", syntax |-> "ok", sup |-> x] : x \in Supplies }

\* What a body turns out to be when it is parsed as a form: as above, or
\* well-formed and carrying values that Set cannot write.
FormBodies ==
  Bodies \cup { [io |-> "ok", syntax |-> "ok", sup |-> x] : x \in FieldSupplies \ Supplies }

\* The 400 responses of body binding.
BadRequest(msg) == HttpError(<<msg>>, StatusBadRequest)

\* Faulty variant: a json.Unmarshal error does not end the request.
BindJSONIgnoringDecodeError(b) ==
  /\ body' = b
  /\ IF b.io = "error"
     THEN /\ resp' = BadRequest("reading body")
          /\ pc' = "done"
          /\ args' = <<>>
          /\ setErrors' = {}
     ELSE /\ resp' = resp
          /\ pc' = "call"
          /\ args' = BindAll(args, h.JSON, 1, b.sup, "J")
          /\ setErrors' = setErrors

\* Faulty variant: after the JSON targets the form targets are bound too.
BindJSONThenForm(b) ==
  /\ body' = b
  /\ IF b.io = "error"
     THEN /\ resp' = BadRequest("reading body")
          /\ pc' = "done"
          /\ args' = <<>>
          /\ setErrors' = {}
     ELSE IF b.syntax = "bad"
     THEN /\ resp' = BadRequest("decoding json")
          /\ pc' = "done"
          /\ args' = <<>>
          /\ setErrors' = {}
     ELSE /\ resp' = resp
          /\ pc' = "call"
          /\ args' = BindAll(BindAll(args, h.JSON, 1, b.sup, "J"), h.Form, 1, b.sup, "F")
          /\ setErrors' = setErrors

\* The JSON branch: buf.ReadFrom(req.Body), then json.Unmarshal per target.
BindJSON(b) ==
  /\ body' = b
  /\ IF b.io = "error"
     THEN /\ resp' = BadRequest("reading body")
          /\ pc' = "done"
          /\ args' = <<>>
          /\ setErrors' = {}
     ELSE IF b.syntax = "bad"
     THEN /\ resp' = BadRequest("decoding json")
          /\ pc' = "done"
          /\ args' = <<>>
          /\ setErrors' = {}
     ELSE /\ resp' = resp
          /\ pc' = "call"
          /\ args' = BindAll(args, h.JSON, 1, b.sup, "J")
          /\ setErrors' = setErrors

\* Faulty variant: a Set error ends the request like a parse error.
BindFormReportingSetError(b) ==
  /\ body' = b
  /\ IF b.io = "error" \/ b.syntax = "bad" \/ b.sup \cap Unwritable # {}
     THEN /\ resp' = BadRequest("parse form")
          /\ pc' = "done"
          /\ args' = <<>>
          /\ setErrors' = {}
     ELSE /\ resp' = resp
          /\ pc' = "call"
          /\ args' = BindAll(args, h.Form, 1, b.sup, "F")
          /\ setErrors' = setErrors

\* The form branch: req.ParseForm(), then Bind/Set per target.
BindForm(b) ==
  /\ body' = b
  /\ IF b.io = "error" \/ b.syntax = "bad"
     THEN /\ resp' = BadRequest("parse form")
          /\ pc' = "done"
          /\ args' = <<>>
          /\ setErrors' = {}
     ELSE /\ resp' = resp
          /\ pc' = "call"
          /\ args' = BindAll(args, h.Form, 1, b.sup, "F")
          /\ setErrors' = SetErrors(setErrors, "form", b.sup)

\* What reaches the transport of a response the adapter wrote in this step.
Transmit ==
  IF resp'.status # 0
  THEN wire' = WriteCall(writer, resp'.body)
  ELSE wire' = wire

\* Unmarshal body: the header is read, then at most one branch runs.
BodyBindFrom(forms) ==
  /\ pc = "body"
  /\ \E ct \in ContentTypes :
       /\ contentType' = ct
       /\ IF TryJSON(h, ct) THEN \E b \in Bodies : BindJSON(b)
          ELSE IF TryForm(h, ct) THEN \E b \in forms : BindForm(b)
          ELSE /\ body' = body
               /\ resp' = resp
               /\ pc' = "call"
               /\ args' = args
               /\ setErrors' = setErrors
  /\ Transmit
  /\ trace' = Append(trace, "body")
  /\ UNCHANGED <<fn, poly, h, invoked, result, lookups, writer, kvVars, goVars, regVars>>

\* A form every value of which Set can write.
BodyBind == BodyBindFrom(Bodies)

\* Faulty variant: the function is called a second time.
InvokeTwice ==
  /\ pc = "call"
  /\ h.kind = "handler"
  /\ \E vals \in Returns(h.Fn.out) : result' = Call(vals)
  /\ invoked' = invoked + 2
  /\ args' = <<>>
  /\ setErrors' = {}
  /\ pc' = "encode"
  /\ trace' = Append(trace, "call")
  /\ UNCHANGED <<fn, poly, h, contentType, body, resp, lookups, writer, wire, kvVars, goVars, regVars>>

\* result := h.Fn.Call(args): the wrapped function runs and returns.
Invoke ==
  /\ pc = "call"
  /\ h.kind = "handler"
  /\ \E vals \in Returns(h.Fn.out) : result' = Call(vals)
  /\ invoked' = invoked + 1
  /\ args' = <<>>
  /\ setErrors' = {}
  /\ pc' = "encode"
  /\ trace' = Append(trace, "call")
  /\ UNCHANGED <<fn, poly, h, contentType, body, resp, lookups, writer, wire, kvVars, goVars, regVars>>

\* The type switch on result.Values[0]: `case string` matches the type string.
IsText(v) == v.type = "string"

\* fmt.Fprintf(w, string(blob)): the blob is the format string.
FormatBlob(blob) == Sprintf(blob)

ErrorResponse(msg) == HttpError(msg, StatusInternalServerError)

\* Faulty variant: a text payload is written before the error is looked at.
EncodePayloadFirst(hd, res, r) ==
  IF hd.FnHasReturn /\ IsText(res.Values[1])
  THEN Write(SetContentType(r, ContentTypeText), Sprint(res.Values[1].s))
  ELSE IF ~res.Error.isnil THEN ErrorResponse(res.Error.s)
  ELSE r

\* Faulty variant: the error of json.Marshal is dropped.
EncodeIgnoringMarshalError(hd, res, r) ==
  IF ~res.Error.isnil THEN ErrorResponse(res.Error.s)
  ELSE IF hd.FnHasReturn
  THEN IF IsText(res.Values[1])
       THEN Write(SetContentType(r, ContentTypeText), Sprint(res.Values[1].s))
       ELSE Write(SetContentType(r, ContentTypeJSON),
                  IF MarshalFails(res.Values[1]) THEN <<>>
                  ELSE FormatBlob(JSONMarshal(res.Values[1])))
  ELSE r

\* Faulty variant: a text payload is written, and the error after it.
EncodeErrorAfterPayload(hd, res, r) ==
  LET r1 == IF hd.FnHasReturn /\ IsText(res.Values[1])
            THEN Write(SetContentType(r, ContentTypeText), Sprint(res.Values[1].s))
            ELSE r
  IN  IF ~res.Error.isnil
      THEN [r1 EXCEPT !.status = IF @ = 0 THEN StatusInternalServerError ELSE @,
                      !.ctype = ContentTypeText,
                      !.body = @ \o res.Error.s \o <<"\n">>]
      ELSE IF hd.FnHasReturn /\ ~IsText(res.Values[1])
      THEN IF MarshalFails(res.Values[1])
           THEN ErrorResponse(MarshalErrMsg)
           ELSE Write(SetContentType(r, ContentTypeJSON),
                      FormatBlob(JSONMarshal(res.Values[1])))
      ELSE r1

\* Lines 206-238 of ServeHTTP: the response written for a result.
Encode(hd, res, r) ==
  IF ~res.Error.isnil THEN ErrorResponse(res.Error.s)
  ELSE IF hd.FnHasReturn
  THEN IF IsText(res.Values[1])
       THEN Write(SetContentType(r, ContentTypeText), Sprint(res.Values[1].s))
       ELSE IF MarshalFails(res.Values[1])
       THEN ErrorResponse(MarshalErrMsg)
       ELSE Write(SetContentType(r, ContentTypeJSON),
                  FormatBlob(JSONMarshal(res.Values[1])))
  ELSE r

\* Faulty variant: after writing, the encoder goes round again.
RespondRetrying ==
  /\ pc = "encode"
  /\ resp' = Encode(h, result, resp)
  /\ Transmit
  /\ pc' = "encode"
  /\ trace' = trace
  /\ UNCHANGED <<fn, poly, h, args, contentType, body, invoked, result,
               lookups, setErrors, writer, kvVars, goVars, regVars>>

\* The response is written and ServeHTTP returns.
Respond ==
  /\ pc = "encode"
  /\ resp' = Encode(h, result, resp)
  /\ Transmit
  /\ pc' = "done"
  /\ trace' = Append(trace, "encode")
  /\ UNCHANGED <<fn, poly, h, args, contentType, body, invoked, result,
               lookups, setErrors, writer, kvVars, goVars, regVars>>

Next ==
  \/ Register
  \/ ServeDirect
  \/ InvokeDirect
  \/ ServeHTTP
  \/ PassThrough
  \/ PathBind
  \/ QueryBind
  \/ BodyBind
  \/ Invoke
  \/ Respond

Spec == Init /\ [][Next]_vars

SpecWriters == InitWriters /\ [][Next]_vars

\* Functions over a struct and the request are registered.
InitLive ==
  Setup({f \in FnValues : \A k \in 1..Len(f.in) : f.in[k] \in {"T", argTypeRequest}},
        {"all"})

\* ServeHTTP is sequential code without waits: a request in flight takes its
\* next step.  For the body step this supposes that reading the body returns,
\* for the call that the wrapped function returns.  Requests need not arrive.
Fairness ==
  /\ WF_vars(InvokeDirect)
  /\ WF_vars(PassThrough)
  /\ WF_vars(PathBind)
  /\ WF_vars(QueryBind)
  /\ WF_vars(BodyBind)
  /\ WF_vars(Invoke)
  /\ WF_vars(Respond)

SpecLive == InitLive /\ [][Next]_vars /\ Fairness

\* Faulty variant: the second call does not look at the return types.
RegisterAgainForgetful ==
  /\ pc \in {"idle", "done", "panicked"}
  /\ h2 = NoHandler
  /\ h2' = IF Handler(poly, fn).kind = "handler"
           THEN [Handler(poly, fn) EXCEPT !.FnHasReturn = FALSE]
           ELSE Handler(poly, fn)
  /\ UNCHANGED <<serving, handlerVars, kvVars, goVars>>

\* p.Handler(fn) once more, at any time after the first call: the same
\* function on the same Poly.
RegisterAgain ==
  /\ pc \in {"idle", "done", "panicked"}
  /\ h2 = NoHandler
  /\ h2' = Handler(poly, fn)
  /\ UNCHANGED <<serving, handlerVars, kvVars, goVars>>

\* Between two requests: from now on requests go to the other registration.
Switch ==
  /\ pc \in {"idle", "done"}
  /\ h2 # NoHandler
  /\ h' = h2
  /\ h2' = h
  /\ serving' = 3 - serving
  /\ UNCHANGED <<fn, poly, pc, args, contentType, body, invoked, result, resp, trace,
                 lookups, setErrors, writer, wire, kvVars, goVars>>

NextTwice ==
  \/ Register
  \/ RegisterAgain
  \/ Switch
  \/ ServeDirect
  \/ InvokeDirect
  \/ ServeHTTP
  \/ PassThrough
  \/ PathBind
  \/ QueryBind
  \/ BodyBind
  \/ Invoke
  \/ Respond

SpecTwice == InitLive /\ [][NextTwice]_vars

\* Functions without return values (and the values that are no functions) are
\* registered on a Poly whose mappers may be configured without
\* TaggedFieldsOnly, and requests may carry values that Set cannot write.
InitInputs ==
  SetupWith({f \in FnValues : f.out = <<>> \/ f.kind # "func"}, {"all"}, AllPolys)

NextInputs ==
  \/ Register
  \/ ServeDirect
  \/ InvokeDirect
  \/ ServeHTTP
  \/ PassThrough
  \/ PathBindFrom(FieldSupplies)
  \/ QueryBindFrom(FieldSupplies)
  \/ BodyBindFrom(FormBodies)
  \/ Invoke
  \/ Respond

SpecInputs == InitInputs /\ [][NextInputs]_vars

\* ---------------------------------------------------------- KeyValueParams
\* Paths are byte strings over a slash and two other characters.
PathChars == {"/", "a", "b"}
Paths == SeqsUpTo(PathChars, MaxPath)

\* map[string]string{}
EmptyMap == [x \in {} |-> <<>>]

\* Faulty variant: an entry that exists is kept.
PutIfAbsent(rv, k, v) ==
  [x \in DOMAIN rv \cup {k} |-> IF x \in DOMAIN rv THEN rv[x] ELSE v]

\* rv[k] = v
Put(rv, k, v) ==
  [x \in DOMAIN rv \cup {k} |-> IF x = k THEN v ELSE rv[x]]

\* m[k] of a Go map: the zero value "" for a key that is not in it.
Get(m, k) == IF k \in DOMAIN m THEN m[k] ELSE <<>>

\* `for ; begin < remaining && p[begin] == '/'; begin++ {}`: where it stops.
\* Indices are Go's (0-based): p[i] is the TLA+ element p[i + 1].
RECURSIVE SkipSlashes(_, _, _)
SkipSlashes(p, begin, remaining) ==
  IF begin < remaining /\ p[begin + 1] = "/"
  THEN SkipSlashes(p, begin + 1, remaining) ELSE begin

\* `for k = begin; k < remaining && p[k] != '/'; k++ {}`: where it stops.
RECURSIVE SkipSegment(_, _, _)
SkipSegment(p, k, remaining) ==
  IF k < remaining /\ p[k + 1] # "/"
  THEN SkipSegment(p, k + 1, remaining) ELSE k

\* One iteration of `for p != ""` in ParsePath, then the rest of the loop.
RECURSIVE ParsePathLoop(_, _, _)
ParsePathLoop(p, remaining, rv) ==
  IF p = <<>> THEN rv
  ELSE
    LET begin == SkipSlashes(p, 0, remaining)
    IN  IF begin = remaining THEN rv
        ELSE
          LET k == SkipSegment(p, begin, remaining)
              keystr == SubSeq(p, begin + 1, k)
          IN  IF k = remaining THEN Put(rv, keystr, <<>>)
              ELSE
                LET begin2 == SkipSlashes(p, k, remaining)
                    k2 == SkipSegment(p, begin2, remaining)
                    rv2 == Put(rv, keystr, SubSeq(p, begin2 + 1, k2))
                IN  IF k2 = remaining THEN rv2
                    ELSE ParsePathLoop(SubSeq(p, k2 + 1, Len(p)), remaining - k2, rv2)

\* KeyValueParams.ParsePath
ParsePath(p) == ParsePathLoop(p, Len(p), EmptyMap)

\* A request context without / with a value under kvpParams.
NoContext == [set |-> FALSE, values |-> EmptyMap]
WithValue(values) == [set |-> TRUE, values |-> values]

\* Faulty variant: the context is not consulted.
PathParamIgnoringContext(c, name) == <<>>

\* KeyValueParams.PathParam on a request whose context is c.
PathParam(c, name) == IF c.set THEN Get(c.values, name) ELSE <<>>

\* The keys the handler behind the middleware asks for.
LookupKeys == { <<>>, <<"a">>, <<"b">>, <<"a", "b">> }

InitKV ==
  /\ urlPath \in Paths
  /\ kvpc = "arrived"
  /\ ctx = NoContext
  /\ nextCalls = 0
  /\ found = <<>>
  /\ fn = [kind |-> "value", in |-> <<>>, out |-> <<>>]
  /\ poly = [FormMapper |-> NIL, PathMapper |-> NIL, QueryMapper |-> NIL, PathParamer |-> NIL]
  /\ h = NoHandler
  /\ pc = "off"
  /\ args = <<>>
  /\ contentType = ""
  /\ body = NoBody
  /\ invoked = 0
  /\ result = NoResult
  /\ resp = NoResponse
  /\ trace = <<>>
  /\ lookups = 0
  /\ setErrors = {}
  /\ writer = "all"
  /\ wire = NoWire
  /\ NoGoroutines
  /\ NoSecondHandler

\* The request is served by kv.Handler(next): the function literal parses
\* the path, puts the values into the context and calls next.ServeHTTP with
\* the request carrying that context.
MiddlewareServe ==
  /\ kvpc = "arrived"
  /\ ctx' = WithValue(ParsePath(urlPath))
  /\ nextCalls' = nextCalls + 1
  /\ kvpc' = "next"
  /\ UNCHANGED <<urlPath, found, handlerVars, goVars, regVars>>

\* The request is served by next itself, not wrapped by the middleware.
DirectServe ==
  /\ kvpc = "arrived"
  /\ nextCalls' = nextCalls + 1
  /\ kvpc' = "next"
  /\ UNCHANGED <<urlPath, ctx, found, handlerVars, goVars, regVars>>

\* next calls kv.PathParam(req, name).
Lookup ==
  /\ kvpc = "next"
  /\ Len(found) < MaxLookups
  /\ \E name \in LookupKeys :
       found' = Append(found, [key |-> name, value |-> PathParam(ctx, name)])
  /\ UNCHANGED <<urlPath, kvpc, ctx, nextCalls, handlerVars, goVars, regVars>>

\* next.ServeHTTP returns, and with it the middleware's function.
NextReturns ==
  /\ kvpc = "next"
  /\ kvpc' = "done"
  /\ UNCHANGED <<urlPath, ctx, nextCalls, found, handlerVars, goVars, regVars>>

NextKV ==
  \/ MiddlewareServe
  \/ DirectServe
  \/ Lookup
  \/ NextReturns

SpecKV == InitKV /\ [][NextKV]_vars

\* -------------------------------------------------------- concurrent calls
\* The host serves every request on a goroutine of its own; two of them call
\* ServeHTTP of the same handler, each again and again.
Goroutines == {1, 2}

\* Faulty variant: every call works on one and the same argument set.
SlotShared(r) == 1

\* `args := h.Fn.Args()` is a local of the call: each call has its own.
Slot(r) == r

\* What a request carries: the field names its path, query string and body
\* have a value for, and its Content-Type header (kept once it is read).
NoInput == [sup |-> {}, ct |-> ""]

InitGo ==
  /\ fn \in { f \in FnValues : f.kind = "func" /\ f.out = <<>> }
  /\ poly \in Polys
  /\ h = Handler(poly, fn)
  /\ h.kind = "handler"
  /\ rpc = [r \in Goroutines |-> "idle"]
  /\ rargs = [r \in Goroutines |-> <<>>]
  /\ rin = [r \in Goroutines |-> NoInput]
  /\ pc = "off"
  /\ args = <<>>
  /\ contentType = ""
  /\ body = NoBody
  /\ invoked = 0
  /\ result = NoResult
  /\ resp = NoResponse
  /\ trace = <<>>
  /\ lookups = 0
  /\ setErrors = {}
  /\ writer = "all"
  /\ wire = NoWire
  /\ NoKeyValueParams
  /\ NoSecondHandler

\* Goroutine r enters handler.ServeHTTP with a request: args := h.Fn.Args().
GoServeHTTP(r) ==
  /\ rpc[r] \in {"idle", "done"}
  /\ \E sup \in Supplies : rin' = [rin EXCEPT ![r] = [sup |-> sup, ct |-> ""]]
  /\ rargs' = [rargs EXCEPT ![Slot(r)] = Args(h.Fn)]
  /\ rpc' = [rpc EXCEPT ![r] = "passthru"]
  /\ UNCHANGED <<handlerVars, kvVars, regVars>>

GoPassThrough(r) ==
  /\ rpc[r] = "passthru"
  /\ rargs' = [rargs EXCEPT ![Slot(r)] = SetPassThru(@, h.PassThru, 1)]
  /\ rpc' = [rpc EXCEPT ![r] = "path"]
  /\ UNCHANGED <<rin, handlerVars, kvVars, regVars>>

GoPathBind(r) ==
  /\ rpc[r] = "path"
  /\ rargs' = IF HasPathParamer(h.Poly) /\ Len(h.Path) > 0
              THEN [rargs EXCEPT ![Slot(r)] = BindPathAll(@, h.Path, 1, rin[r].sup)]
              ELSE rargs
  /\ rpc' = [rpc EXCEPT ![r] = "query"]
  /\ UNCHANGED <<rin, handlerVars, kvVars, regVars>>

GoQueryBind(r) ==
  /\ rpc[r] = "query"
  /\ rargs' = IF Len(h.Query) > 0
              THEN [rargs EXCEPT ![Slot(r)] = BindAll(@, h.Query, 1, rin[r].sup, "Q")]
              ELSE rargs
  /\ rpc' = [rpc EXCEPT ![r] = "body"]
  /\ UNCHANGED <<rin, handlerVars, kvVars, regVars>>

\* The body step of goroutine r: the header is read; if a gate is open the
\* body is read or parsed and turns out unreadable, malformed or well-formed.
GoBodyBind(r) ==
  /\ rpc[r] = "body"
  /\ \E ct \in ContentTypes :
       IF TryJSON(h, ct) \/ TryForm(h, ct)
       THEN \E b \in { x \in Bodies : x.sup = IF x.io = "ok" /\ x.syntax = "ok"
                                              THEN rin[r].sup ELSE {} } :
              IF b.io = "error" \/ b.syntax = "bad"
              THEN /\ rpc' = [rpc EXCEPT ![r] = "done"]
                   /\ rargs' = [rargs EXCEPT ![Slot(r)] = <<>>]
                   /\ rin' = [rin EXCEPT ![r].ct = ""]
              ELSE /\ rin' = [rin EXCEPT ![r].ct = ct]
                   /\ rpc' = [rpc EXCEPT ![r] = "call"]
                   /\ rargs' = [rargs EXCEPT ![Slot(r)] =
                                  IF TryJSON(h, ct)
                                  THEN BindAll(@, h.JSON, 1, b.sup, "J")
                                  ELSE BindAll(@, h.Form, 1, b.sup, "F")]
       ELSE /\ rin' = [rin EXCEPT ![r].ct = ct]
            /\ rpc' = [rpc EXCEPT ![r] = "call"]
            /\ rargs' = rargs
  /\ UNCHANGED <<handlerVars, kvVars, regVars>>

\* h.Fn.Call(args) of goroutine r: the function runs and returns nothing,
\* and ServeHTTP returns; its locals are gone.
GoInvoke(r) ==
  /\ rpc[r] = "call"
  /\ rpc' = [rpc EXCEPT ![r] = "done"]
  /\ rargs' = [rargs EXCEPT ![Slot(r)] = <<>>]
  /\ rin' = [rin EXCEPT ![r].ct = ""]
  /\ UNCHANGED <<handlerVars, kvVars, regVars>>

NextGo ==
  \E r \in Goroutines :
    \/ GoServeHTTP(r)
    \/ GoPassThrough(r)
    \/ GoPathBind(r)
    \/ GoQueryBind(r)
    \/ GoBodyBind(r)
    \/ GoInvoke(r)

SpecGo == InitGo /\ [][NextGo]_vars

\* ------------------------------------------------------------------ claims
\* The request in flight is served by the plan-carrying adapter and has
\* returned from ServeHTTP.
Served == h.kind = "handler" /\ pc = "done"

\* The wrapped function has returned and the adapter has answered.
Answered == Served /\ invoked = 1

\* C1: when the call returns a non-nil error the response is what
\* http.Error(w, err.Error(), 500) writes - status 500, the error's message
\* (newline-terminated) as the body - and nothing of the payload, whatever the
\* other return values are and also without a payload return; with a nil
\* error the only 500 is that of a payload that cannot be marshaled.
C1_ErrorPrecedence ==
  Answered =>
    /\ ~result.Error.isnil =>
         /\ resp.status = StatusInternalServerError
         /\ resp.body = result.Error.s \o <<"\n">>
         /\ resp.ctype # ContentTypeJSON
    /\ result.Error.isnil =>
         (resp.status = StatusInternalServerError =>
            h.FnHasReturn /\ result.Values[1].bad)

C1_Witness ==
  /\ Answered
  /\ ~result.Error.isnil
  /\ h.FnHasReturn
  /\ result.Values[1].s = <<"a">>
  /\ resp.status = StatusInternalServerError

\* C2 (as claimed): with no error and a first return value of a whitelisted
\* non-text kind that marshals, the response has Content-Type
\* application/json and its body is byte for byte the JSON encoding of the
\* payload, which decodes to the payload - for every payload value.
C2_JSONBodyIsEncoding ==
  (Answered /\ result.Error.isnil /\ h.FnHasReturn
     /\ Kind(result.Values[1].type) # "String" /\ ~result.Values[1].bad) =>
    /\ resp.ctype = ContentTypeJSON
    /\ resp.body = JSONMarshal(result.Values[1])
    /\ JSONUnmarshal(resp.body, result.Values[1].type) = result.Values[1].s

\* C3 (as claimed): with no error and a first return value of string kind -
\* the type string or a named string type - the response is status 200,
\* Content-Type text/plain; charset=utf-8, and the body is exactly the text.
C3_TextBodyIsText ==
  (Answered /\ result.Error.isnil /\ h.FnHasReturn
     /\ Kind(result.Values[1].type) = "String") =>
    /\ resp.status = StatusOK
    /\ resp.ctype = ContentTypeText
    /\ resp.body = result.Values[1].s

\* The body of the request in flight was read (or parsed) and is faulty.
BodyFault == body.io = "error" \/ body.syntax = "bad"

\* C4: on a body-binding fault the request ends with status 400 right after
\* the body step: no later step runs and the function is not invoked; and a
\* 400 is only ever the answer to such a fault.
C4_BodyFaultAborts ==
  /\ BodyFault =>
       /\ pc = "done"
       /\ resp.status = StatusBadRequest
       /\ invoked = 0
       /\ trace = <<"passthru", "path", "query", "body">>
  /\ resp.status = StatusBadRequest => BodyFault /\ invoked = 0

C4_Witness ==
  /\ pc = "done"
  /\ body.io = "ok" /\ body.syntax = "bad"
  /\ contentType = ContentTypeJSON
  /\ Len(h.JSON) = 2
  /\ resp.status = StatusBadRequest

\* C5: Poly.Handler returns an http.Handler or http.HandlerFunc argument
\* itself, and for func(http.ResponseWriter, *http.Request) a handler that
\* calls the function with the same writer and request and does nothing
\* else: no plan exists, no binding or encoding step runs, nothing is read
\* or written by the adapter.
ExactShape(f) ==
  f.kind = "func" /\ f.in = <<"ResponseWriter", "Request">> /\ f.out = <<>>

C5_Bypass ==
  pc # "register" =>
    /\ fn.kind \in {"http.Handler", "http.HandlerFunc"} => h = [kind |-> "same", Fn |-> fn]
    /\ ExactShape(fn) => h = [kind |-> "HandlerFunc", Fn |-> fn]
    /\ (fn.kind \in {"http.Handler", "http.HandlerFunc"} \/ ExactShape(fn)) =>
         /\ trace = <<>>
         /\ body = NoBody
         /\ resp = NoResponse
         /\ result = NoResult
         /\ pc = "call" => args = <<W, Req>>
         /\ pc = "done" => invoked = 1

C5_Witness ==
  /\ ExactShape(fn)
  /\ poly.FormMapper # NIL /\ poly.QueryMapper # NIL
  /\ pc = "done"
  /\ invoked = 1

\* The header has been read: the body step of this request is over.
PastBody == h.kind = "handler" /\ pc \in {"call", "encode", "done"}

\* C6: the body is read or parsed exactly when the Content-Type header is
\* exactly "application/json" and the plan has a JSON target, or exactly
\* "application/x-www-form-urlencoded" and the plan has a form target; for
\* every other header value nothing is read, no 400 is produced and the
\* function is invoked.
C6_ContentTypeGate ==
  PastBody =>
    LET gate == \/ contentType = "application/json" /\ h.JSON # <<>>
                \/ contentType = "application/x-www-form-urlencoded" /\ h.Form # <<>>
    IN  /\ (body # NoBody) <=> gate
        /\ ~gate =>
             /\ resp.status # StatusBadRequest
             /\ pc = "call" => invoked = 0
             /\ pc \in {"encode", "done"} => invoked = 1

C6_Witness ==
  /\ PastBody
  /\ contentType = "application/json; charset=utf-8"
  /\ h.JSON # <<>> /\ h.Form # <<>>
  /\ body = NoBody
  /\ pc = "done"
  /\ invoked = 1

\* C7: the payload flag is true exactly when the function has a first return
\* value of bool, an int or uint width, float32/64, string kind, pointer,
\* array, slice, map or struct (so not uintptr, complex, chan, func, an
\* interface such as error, unsafe.Pointer), later return values never
\* counting; and with the flag false and no error the adapter writes nothing.
C7_PayloadFlag ==
  h.kind = "handler" =>
    /\ h.FnHasReturn <=>
         (fn.out # <<>> /\
          fn.out[1] \in {"bool", "int", "int8", "int16", "int32", "int64",
                         "uint", "uint8", "uint16", "uint32", "uint64",
                         "float32", "float64", "string", "MyString",
                         "ptr", "array", "slice", "map", "struct"})
    /\ (Answered /\ ~h.FnHasReturn /\ result.Error.isnil) => resp = NoResponse

C7_Witness ==
  /\ Answered
  /\ fn.out = <<"chan", "string">>
  /\ result.Values[2].s = <<"a">>
  /\ resp = NoResponse

\* C8: when the payload cannot be marshaled the response is status 500 with
\* the marshal error's message (as http.Error writes it) as the body; the
\* JSON content type is not set and nothing of an encoding is written.
C8_MarshalFault ==
  (Answered /\ result.Error.isnil /\ h.FnHasReturn
     /\ result.Values[1].type # "string" /\ result.Values[1].bad) =>
    /\ resp.status = StatusInternalServerError
    /\ resp.body = MarshalErrMsg \o <<"\n">>
    /\ resp.ctype # ContentTypeJSON

C8_Witness ==
  /\ Answered
  /\ result.Error.isnil
  /\ fn.out = <<"struct", "error">>
  /\ result.Values[1].bad
  /\ resp.status = StatusInternalServerError

\* C9 (as claimed): in every plan, every parameter whose type is a struct or
\* a pointer to a struct has its index in the JSON target list.  (T and QT
\* are structs; PtrT and *http.Request are pointers to structs.)
C9_StructsAreJSONTargets ==
  h.kind = "handler" =>
    \A k \in 1..Len(fn.in) :
      fn.in[k] \in {"T", "PtrT", "QT", "Request"} => InList(h.JSON, k - 1)

\* C9 (amended): the same for every such parameter other than *http.Request,
\* whatever mappers are configured.
C9_StructsButRequestAreJSONTargets ==
  h.kind = "handler" =>
    \A k \in 1..Len(fn.in) :
      fn.in[k] \in {"T", "PtrT", "QT"} => InList(h.JSON, k - 1)

C9_Witness ==
  /\ h.kind = "handler"
  /\ fn.in = <<"Int", "PtrT">>
  /\ poly.FormMapper # NIL /\ poly.PathMapper # NIL /\ poly.QueryMapper # NIL
  /\ h.JSON = <<1>>

\* C10: a function with http.ResponseWriter and/or *http.Request among its
\* parameters is invoked with this request's writer and request themselves
\* at exactly those positions, every other position holding a value of its
\* own parameter's type.
C10_PassThrough ==
  (h.kind = "handler" /\ pc = "call") =>
    /\ Len(args) = Len(fn.in)
    /\ \A k \in 1..Len(fn.in) :
         CASE fn.in[k] = "Request" -> args[k] = Req
           [] fn.in[k] = "ResponseWriter" -> args[k] = W
           [] fn.in[k] = "T" -> args[k].kind = "struct"
           [] fn.in[k] = "PtrT" -> args[k].kind = "ptr"
           [] fn.in[k] = "QT" -> args[k].kind = "struct"
           [] fn.in[k] = "Int" -> args[k].kind = "int"
           [] fn.in[k] = "Iface" -> args[k].kind = "iface"

C10_Witness ==
  /\ h.kind = "handler" /\ pc = "call"
  /\ fn.in = <<"T", "Request">>
  /\ args[1].name = "Q"
  /\ args[2] = Req

\* C11: when the plan has path targets but no PathParamer is configured,
\* every request skips path binding - the provider is never called, no
\* argument receives a path value, the path step writes no response - and
\* goes on through query and body binding to the invocation (short of a body
\* fault, which ends it with the 400 of that step).
C11_NoProviderSkipsPath ==
  (h.kind = "handler" /\ h.Path # <<>> /\ poly.PathParamer = NIL) =>
    /\ lookups = 0
    /\ \A k \in 1..Len(args) : args[k].name # "P" /\ args[k].age # "P"
    /\ pc = "query" => resp = NoResponse /\ trace = <<"passthru", "path">>
    /\ (pc = "done" /\ ~BodyFault) =>
         /\ invoked = 1
         /\ trace = <<"passthru", "path", "query", "body", "call", "encode">>
         /\ resp.status # StatusBadRequest

C11_Witness ==
  /\ h.kind = "handler" /\ h.Path # <<>> /\ poly.PathParamer = NIL
  /\ pc = "call"
  /\ lookups = 0
  /\ args[1].name = "J" /\ args[1].age = "Q"

\* The positions of the return values of type error.
ErrorPositions(out) == { k \in 1..Len(out) : out[k] = "error" }

\* C12: when the function returns several values of type error, the response
\* is the 500 error response carrying the message of the last of them
\* exactly when that last one is non-nil, whatever the earlier ones are.
C12_LastErrorDecides ==
  (Answered /\ Cardinality(ErrorPositions(fn.out)) >= 2) =>
    LET last == result.Values[CHOOSE k \in ErrorPositions(fn.out) :
                                \A j \in ErrorPositions(fn.out) : j <= k]
    IN  /\ ~last.isnil <=>
             /\ resp.status = StatusInternalServerError
             /\ resp.body = last.s \o <<"\n">>
        /\ last.isnil => resp.status # StatusInternalServerError

C12_Witness ==
  /\ Answered
  /\ fn.out = <<"bool", "error", "error">>
  /\ ~result.Values[2].isnil
  /\ result.Values[3].isnil
  /\ resp.status = StatusOK

\* C13: a value that is neither a function nor an http.Handler makes
\* Poly.Handler panic: no handler is ever returned for it, so no request is
\* ever served on its behalf.
C13_NonFunctionPanics ==
  /\ (fn.kind = "value" /\ pc # "register") =>
       /\ h.kind = "panic"
       /\ pc = "panicked"
       /\ invoked = 0
       /\ trace = <<>>
       /\ resp = NoResponse
  /\ h.kind \in {"same", "HandlerFunc", "handler"} => fn.kind # "value"

C13_Witness ==
  /\ fn.kind = "value"
  /\ pc = "panicked"
  /\ h.kind = "panic"

\* C14: when JSON body binding has run, every JSON target has been decoded
\* from the one body that was read: each of them holds the decoded value of
\* exactly the fields the body carries, however many targets there are and
\* wherever they stand in the list.
C14_EachTargetDecodesWholeBody ==
  (h.kind = "handler" /\ pc = "call" /\ contentType = ContentTypeJSON /\ h.JSON # <<>>) =>
    /\ body.io = "ok" /\ body.syntax = "ok"
    /\ \A j \in 1..Len(h.JSON) :
         LET a == args[h.JSON[j] + 1]
         IN  /\ a.name = "J" <=> "name" \in body.sup
             /\ a.age = "J" <=> "age" \in body.sup

C14_Witness ==
  /\ h.kind = "handler" /\ pc = "call"
  /\ contentType = ContentTypeJSON
  /\ fn.in = <<"PtrT", "T">>
  /\ body.sup = {"name"}
  /\ args[1].name = "J" /\ args[2].name = "J"
  /\ args[2].age = "Q"

\* C19 (as claimed): when the request has been answered and no Write call
\* failed, the transport has received the complete body the adapter wrote,
\* also from a writer that takes fewer bytes per call than it is offered.
C19_WholePayloadWritten ==
  (Answered /\ ~wire.err) => wire.got = resp.body

\* A function whose parameters are all of a type carrying query keys only.
OnlyQuery(f) ==
  f.kind = "func" /\ f.in # <<>> /\ \A k \in 1..Len(f.in) : f.in[k] = "QT"

\* C20 (as claimed): for a function whose parameter types carry query keys
\* and no form keys the request body is never read or parsed, whatever the
\* Content-Type header is.
C20_QueryOnlyNeverReadsBody ==
  (h.kind = "handler" /\ OnlyQuery(fn)) => body = NoBody

\* C20 (amended): for such a function the body is never parsed as a form, and
\* it is read exactly on the requests whose Content-Type header is exactly
\* application/json (its struct parameters are JSON targets); on every other
\* request nothing is read and no 400 is produced.
C20_QueryOnlyReadsBodyOnlyAsJSON ==
  (h.kind = "handler" /\ OnlyQuery(fn)) =>
    /\ h.Form = <<>>
    /\ PastBody => ((body # NoBody) <=> contentType = "application/json")
    /\ contentType # "application/json" => resp.status # StatusBadRequest

C20_Witness ==
  /\ h.kind = "handler" /\ OnlyQuery(fn)
  /\ poly.FormMapper # NIL /\ poly.QueryMapper # NIL
  /\ pc = "call"
  /\ contentType = "application/x-www-form-urlencoded"
  /\ body = NoBody
  /\ args[1].name = "Q"

\* p split on "/", empty segments included.
RECURSIVE Split(_)
Split(p) ==
  IF \A i \in 1..Len(p) : p[i] # "/" THEN << p >>
  ELSE LET i == CHOOSE i \in 1..Len(p) : p[i] = "/" /\ \A j \in 1..(i - 1) : p[j] # "/"
       IN  << SubSeq(p, 1, i - 1) >> \o Split(SubSeq(p, i + 1, Len(p)))

\* The reference mapping of a path: its non-empty segments paired as key,
\* value; the last occurrence of a key counts, a key without a value maps
\* to the empty string.
Reference(p) ==
  LET segs == SelectSeq(Split(p), LAMBDA x : x # <<>>)
      keyAt == { i \in 1..Len(segs) : i % 2 = 1 }
  IN  [ x \in { segs[i] : i \in keyAt } |->
          LET i == CHOOSE i \in keyAt : segs[i] = x /\ \A j \in keyAt : segs[j] = x => j <= i
          IN  IF i + 1 <= Len(segs) THEN segs[i + 1] ELSE <<>> ]

\* C15: for every path, ParsePath gives the reference mapping - and that is
\* what the middleware puts into the request context.
C15_ParsePathIsReference ==
  /\ ParsePath(urlPath) = Reference(urlPath)
  /\ DOMAIN ParsePath(urlPath) = DOMAIN Reference(urlPath)
  /\ ctx.set => ctx.values = Reference(urlPath)

C15_Witness ==
  /\ kvpc = "next"
  /\ ctx.set
  /\ urlPath = <<"/", "a", "/", "/", "b", "/", "a">>
  /\ DOMAIN ctx.values = { <<"a">> }
  /\ ctx.values[<<"a">>] = <<>>

\* C16: behind the middleware next is called exactly once, and every
\* PathParam call in it returns the parsed path's value for the key; for a
\* key that is not in the path, and on a request that did not pass the
\* middleware, it returns the empty string - as it does for a key whose
\* value is empty.
C16_PathParamReadsParsedPath ==
  /\ kvpc \in {"next", "done"} => nextCalls = 1
  /\ kvpc = "arrived" => nextCalls = 0 /\ found = <<>>
  /\ \A i \in 1..Len(found) :
       found[i].value =
         IF ctx.set /\ found[i].key \in DOMAIN ParsePath(urlPath)
         THEN ParsePath(urlPath)[found[i].key]
         ELSE <<>>

C16_Witness ==
  /\ kvpc = "done"
  /\ ctx.set
  /\ nextCalls = 1
  /\ urlPath = <<"a", "/", "b", "/", "a", "b">>
  /\ found = << [key |-> <<"a">>, value |-> <<"b">>] >>

\* The argument set a call with input x builds when it runs alone.
Alone(x) ==
  LET a0 == SetPassThru(Args(h.Fn), h.PassThru, 1)
      a1 == IF h.Poly.PathParamer # NIL THEN BindPathAll(a0, h.Path, 1, x.sup) ELSE a0
      a2 == BindAll(a1, h.Query, 1, x.sup, "Q")
  IN  IF x.ct = "application/json" /\ h.JSON # <<>> THEN BindAll(a2, h.JSON, 1, x.sup, "J")
      ELSE IF x.ct = "application/x-www-form-urlencoded" /\ h.Form # <<>>
      THEN BindAll(a2, h.Form, 1, x.sup, "F")
      ELSE a2

\* C17: under every interleaving of ServeHTTP calls of one handler the plan
\* stays what newHandler built, and every call invokes the function with
\* exactly the arguments its own request gives when served alone.
C17_CallsDoNotInterfere ==
  /\ h = newHandler(poly, fn)
  /\ \A r \in Goroutines : rpc[r] = "call" => rargs[Slot(r)] = Alone(rin[r])

C17_Witness ==
  /\ fn.in = <<"T">>
  /\ rpc[1] = "call" /\ rpc[2] = "call"
  /\ rin[1].sup = {"name"} /\ rin[2].sup = {"name", "age"}
  /\ rin[1].ct = "application/json" /\ rin[2].ct = ""
  /\ rargs[1][1].name = "J" /\ rargs[1][1].age = ""
  /\ rargs[2][1].name = "Q" /\ rargs[2][1].age = "Q"

\* C18: every call starts from zero values, and at the invocation a field
\* whose name its own request did not carry, and every parameter no binder
\* step targets, is zero - whatever the requests served before it carried.
C18_FreshArguments ==
  \A r \in Goroutines :
    /\ rpc[r] = "passthru" =>
         \A k \in 1..Len(fn.in) :
           rargs[r][k].name = "" /\ rargs[r][k].age = ""
    /\ rpc[r] = "call" =>
         \A k \in 1..Len(fn.in) :
           /\ "name" \notin rin[r].sup => rargs[r][k].name = ""
           /\ "age" \notin rin[r].sup => rargs[r][k].age = ""
           /\ fn.in[k] \in {"Int", "Iface"} =>
                rargs[r][k].name = "" /\ rargs[r][k].age = ""

C18_Witness ==
  /\ fn.in = <<"QT">>
  /\ rpc[1] = "done" /\ rin[1].sup = {"name", "age"}
  /\ rpc[2] = "call" /\ rin[2].sup = {"name"}
  /\ h.Query # <<>>
  /\ rargs[2][1].name = "Q" /\ rargs[2][1].age = ""

\* The five outcomes of a request, as what the adapter has written.
IsBadRequest ==
  \E m \in {"reading body", "decoding json", "parse form"} :
    resp = [status |-> StatusBadRequest, ctype |-> ContentTypeText, body |-> <<m, "\n">>]

IsErrorResponse ==
  /\ invoked = 1
  /\ resp.status = StatusInternalServerError
  /\ resp.ctype = ContentTypeText
  /\ \/ ~result.Error.isnil /\ resp.body = result.Error.s \o <<"\n">>
     \/ result.Error.isnil /\ resp.body = MarshalErrMsg \o <<"\n">>

IsTextResponse ==
  /\ invoked = 1 /\ h.FnHasReturn
  /\ resp = [status |-> StatusOK, ctype |-> ContentTypeText, body |-> result.Values[1].s]

IsJSONResponse ==
  /\ invoked = 1 /\ h.FnHasReturn
  /\ resp = [status |-> StatusOK, ctype |-> ContentTypeJSON,
             body |-> FormatBlob(JSONMarshal(result.Values[1]))]

IsEmptyResponse == resp = NoResponse

\* C21: a request ends with exactly one of the five outcomes - the adapter
\* has written the status and body of one of them and of nothing else - and
\* while the request is in flight the adapter has written nothing, so that
\* nothing is ever written after an outcome.
C21_ExactlyOneOutcome ==
  h.kind = "handler" =>
    /\ pc \in {"passthru", "path", "query", "body", "call", "encode"} => resp = NoResponse
    /\ pc = "done" =>
         Cardinality({ i \in 1..5 :
           << IsBadRequest, IsErrorResponse, IsTextResponse,
              IsJSONResponse, IsEmptyResponse >>[i] }) = 1

C21_Witness ==
  /\ Answered
  /\ fn.out = <<"string", "error">>
  /\ result.Values[1].s = <<"a">>
  /\ ~result.Values[2].isnil
  /\ IsErrorResponse

\* The steps of a request, in the order ServeHTTP takes them.
StepOrder == <<"passthru", "path", "query", "body", "call", "encode">>

\* C24: the steps of a request occur in the one fixed order, each after the
\* previous one has finished; the body is touched only when path and query
\* binding are over; the function is invoked at most once, and exactly when
\* the request got past the body step.
C24_FixedStepOrder ==
  h.kind = "handler" =>
    /\ trace = SubSeq(StepOrder, 1, Len(trace))
    /\ Len(trace) = CASE pc = "idle" -> 0
                      [] pc = "passthru" -> 0
                      [] pc = "path" -> 1
                      [] pc = "query" -> 2
                      [] pc = "body" -> 3
                      [] pc = "call" -> 4
                      [] pc = "encode" -> 5
                      [] pc = "done" -> IF invoked = 0 THEN 4 ELSE 6
    /\ invoked <= 1
    /\ invoked = 1 <=> Len(trace) >= 5
    /\ body # NoBody => Len(trace) >= 4
    /\ contentType # "" => Len(trace) >= 4

C24_Witness ==
  /\ Served
  /\ trace = StepOrder
  /\ body.io = "ok" /\ body.sup = {"name"}
  /\ lookups = 2
  /\ invoked = 1

Marked(a, mark) ==
  (IF a.name = mark THEN {"name"} ELSE {}) \cup (IF a.age = mark THEN {"age"} ELSE {})

\* C28: a later binder step overrides an earlier one field by field.  After
\* the query step every query target holds the query's value in exactly the
\* fields the query string carries, also where the path step had written
\* (all query targets agree, whether or not they are path targets), and
\* the other fields keep the path's value; after the body step every target
\* of the branch taken holds the body's value in exactly the fields the body
\* carries and keeps the query's or path's value in the others.
C28_LastBinderWins ==
  h.kind = "handler" =>
    /\ pc = "body" =>
         /\ \A i, j \in 1..Len(h.Query) :
              Marked(args[h.Query[i] + 1], "Q") = Marked(args[h.Query[j] + 1], "Q")
         /\ \A k \in 1..Len(args) :
              {args[k].name, args[k].age} \subseteq {"", "P", "Q"}
    /\ pc = "call" =>
         /\ TryJSON(h, contentType) =>
              \A j \in 1..Len(h.JSON) : Marked(args[h.JSON[j] + 1], "J") = body.sup
         /\ (~TryJSON(h, contentType) /\ TryForm(h, contentType)) =>
              \A j \in 1..Len(h.Form) :
                Marked(args[h.Form[j] + 1], "F") = body.sup \cap {"name", "age"}
         /\ \A i, j \in 1..Len(h.Query) :
              LET a == args[h.Query[i] + 1]
                  b == args[h.Query[j] + 1]
              IN  \A f \in {"name", "age"} \ body.sup :
                    (f \in Marked(a, "Q")) <=> (f \in Marked(b, "Q"))

C28_Witness ==
  /\ h.kind = "handler" /\ pc = "call"
  /\ fn.in = <<"T", "QT">>
  /\ poly.PathParamer # NIL /\ h.Path # <<>>
  /\ contentType = "application/x-www-form-urlencoded"
  /\ body.sup = {"name"}
  /\ args[1].name = "F" /\ args[1].age = "Q"
  /\ args[2].name = "Q" /\ args[2].age = "Q"

\* C30: a value that Set cannot write - in the path, the query string or a
\* form - never ends the request: while such an error is on record nothing
\* has been written and the request is on its way to the call, with the
\* writable values of the same source bound; a 400 is written only for the
\* three body faults, and a request without one is invoked.
C30_SetErrorsNeverAbort ==
  h.kind = "handler" =>
    /\ setErrors # {} => pc \in {"query", "body", "call"} /\ resp = NoResponse
    /\ ("form" \in setErrors /\ pc = "call") =>
         /\ body.io = "ok" /\ body.syntax = "ok"
         /\ \A j \in 1..Len(h.Form) :
              Marked(args[h.Form[j] + 1], "F") = body.sup \cap {"name", "age"}
    /\ resp.status = StatusBadRequest => BodyFault
    /\ pc = "done" => (invoked = 1 \/ BodyFault)

C30_Witness ==
  /\ h.kind = "handler" /\ pc = "call"
  /\ fn.in = <<"T">>
  /\ setErrors = {"path", "query", "form"}
  /\ body.sup = {"name", "age!", "other"}
  /\ args[1].name = "F" /\ args[1].age = ""
  /\ ENABLED Invoke

\* Functions all of whose parameters are pass-through slots.
OnlyPassThru(f) ==
  /\ f.kind = "func"
  /\ \A k \in 1..Len(f.in) : f.in[k] \in {argTypeRequest, argTypeResponseWriter}

\* C22: for a function whose parameters are all pass-through slots (and that
\* is not bypassed), whatever the mappers are, the four target lists of the
\* plan are empty, and in every request the binder steps do nothing: no
\* PathParam call, no Set call, no body read, and the arguments stay what the
\* pass-through step made them.
C22_PassThruOnlyBindsNothing ==
  (h.kind = "handler" /\ OnlyPassThru(fn)) =>
    /\ h.Form = <<>> /\ h.JSON = <<>> /\ h.Path = <<>> /\ h.Query = <<>>
    /\ lookups = 0
    /\ setErrors = {}
    /\ body = NoBody
    /\ pc \in {"path", "query", "body", "call"} =>
         args = [k \in 1..Len(fn.in) |-> PassThruValue(fn.in[k])]

C22_Witness ==
  /\ h.kind = "handler" /\ pc = "done"
  /\ fn.in = <<argTypeRequest, argTypeResponseWriter>>
  /\ poly.FormMapper = "untagged" /\ poly.PathMapper = "untagged"
  /\ poly.QueryMapper = "untagged" /\ poly.PathParamer # NIL
  /\ contentType = "application/json"
  /\ invoked = 1

\* Is the sequence of numbers strictly increasing and within 0..n-1?
Ascending(idx, n) ==
  /\ \A j \in 1..Len(idx) : idx[j] \in 0..(n - 1)
  /\ \A i, j \in 1..Len(idx) : i < j => idx[i] < idx[j]

\* C27: the index of every parameter of the request or the response-writer
\* type is in the pass-through list with its type and in neither the path
\* nor the query target list, whatever keys the mappers report; the indices
\* of every list are 0-based positions, strictly increasing, and a path or
\* query target is a parameter the mapper reports keys for.
C27_PassThruIndices ==
  h.kind = "handler" =>
    /\ \A k \in 1..Len(fn.in) :
         fn.in[k] \in {argTypeRequest, argTypeResponseWriter} =>
           /\ \E j \in 1..Len(h.PassThru) : h.PassThru[j] = [N |-> k - 1, T |-> fn.in[k]]
           /\ ~\E j \in 1..Len(h.Path) : h.Path[j].N = k - 1
           /\ ~InList(h.Query, k - 1)
    /\ Ascending([j \in 1..Len(h.PassThru) |-> h.PassThru[j].N], Len(fn.in))
    /\ Ascending([j \in 1..Len(h.Path) |-> h.Path[j].N], Len(fn.in))
    /\ Ascending(h.Query, Len(fn.in))
    /\ Ascending(h.Form, Len(fn.in))
    /\ Ascending(h.JSON, Len(fn.in))
    /\ \A j \in 1..Len(h.PassThru) : fn.in[h.PassThru[j].N + 1] = h.PassThru[j].T
    /\ \A j \in 1..Len(h.Path) :
         h.Path[j].Keys = MapKeys(poly.PathMapper, fn.in[h.Path[j].N + 1])
    /\ \A j \in 1..Len(h.Query) :
         MapKeys(poly.QueryMapper, fn.in[h.Query[j] + 1]) # <<>>

C27_Witness ==
  /\ h.kind = "handler"
  /\ fn.in = <<"QT", argTypeRequest>>
  /\ poly.PathMapper = "untagged" /\ poly.QueryMapper = "untagged"
  /\ h.PassThru = << [N |-> 1, T |-> argTypeRequest] >>
  /\ h.Path = << [N |-> 0, Keys |-> Fields] >>
  /\ h.Query = <<0>>
  /\ pc = "call" /\ args[2] = Req

\* C29: a non-empty form, path or query target list comes with the handler's
\* own non-nil copy of that mapper, so that every value a binder step has
\* written was written through a non-nil mapper; with a zero-value Poly the
\* three lists are empty and only JSON targets exist.
C29_TargetsHaveMappers ==
  h.kind = "handler" =>
    /\ h.Poly = poly
    /\ h.Form # <<>> => h.Poly.FormMapper # NIL
    /\ h.Path # <<>> => h.Poly.PathMapper # NIL
    /\ h.Query # <<>> => h.Poly.QueryMapper # NIL
    /\ \A k \in 1..Len(args) :
         /\ "F" \in {args[k].name, args[k].age} => h.Poly.FormMapper # NIL
         /\ "Q" \in {args[k].name, args[k].age} => h.Poly.QueryMapper # NIL
         /\ "P" \in {args[k].name, args[k].age} =>
              h.Poly.PathMapper # NIL /\ h.Poly.PathParamer # NIL
    /\ lookups > 0 => h.Poly.PathMapper # NIL
    /\ (poly.FormMapper = NIL /\ poly.PathMapper = NIL /\ poly.QueryMapper = NIL) =>
         /\ h.Form = <<>> /\ h.Path = <<>> /\ h.Query = <<>>
         /\ \A k \in 1..Len(fn.in) :
              InList(h.JSON, k - 1) <=> (IsJSONTarget(fn.in[k]) /\ ~Skipped(fn.in[k]))

C29_Witness ==
  /\ h.kind = "handler" /\ pc = "call"
  /\ poly = [FormMapper |-> NIL, PathMapper |-> NIL, QueryMapper |-> NIL, PathParamer |-> NIL]
  /\ fn.in = <<"T", "Int">>
  /\ h.JSON = <<0>>
  /\ args[1].name = "J" /\ args[1].age = "J"

\* How far a request has come.
Rank(p) ==
  CASE p = "passthru" -> 1
    [] p = "path" -> 2
    [] p = "query" -> 3
    [] p = "body" -> 4
    [] p = "call" -> 5
    [] p = "encode" -> 6
    [] p = "done" -> 7
    [] OTHER -> 0

InFlight == h.kind = "handler" /\ Rank(pc) \in 1..6

\* C25: if the body read and the wrapped function return, every request in
\* flight reaches a terminal state; every step of a request in flight takes
\* it forward, so the adapter adds no wait, retry or loop; a terminal state
\* is left only by the next request's arrival, with what the finished
\* request wrote untouched until then; and the only way out of the call is
\* the function's return.
C25_EveryRequestEnds ==
  /\ InFlight ~> (pc = "done")
  /\ [][InFlight => Rank(pc') > Rank(pc)]_vars
  /\ [][(h.kind = "handler" /\ pc = "done") =>
          (pc' = "passthru" /\ invoked' = 0 /\ resp' = NoResponse /\ trace' = <<>>)]_vars
  /\ [][(h.kind = "handler" /\ pc = "call") => (pc' = "encode" /\ invoked' = 1)]_vars

C25_Witness ==
  /\ Served
  /\ fn.in = <<"T", argTypeRequest>>
  /\ fn.out = <<"struct", "error">>
  /\ body.io = "ok" /\ body.sup = {"name", "age"}
  /\ result.Error.isnil
  /\ resp.status = StatusOK

\* What a handler answers to a request with the given Content-Type header
\* and body when the wrapped function returns res.
ResponseOf(hd, ct, b, res) ==
  IF TryJSON(hd, ct) /\ b.io = "error" THEN BadRequest("reading body")
  ELSE IF TryJSON(hd, ct) /\ b.syntax = "bad" THEN BadRequest("decoding json")
  ELSE IF ~TryJSON(hd, ct) /\ TryForm(hd, ct) /\ (b.io = "error" \/ b.syntax = "bad")
  THEN BadRequest("parse form")
  ELSE Encode(hd, res, NoResponse)

====
